---- MODULE Spec2Model ----
(***************************************************************************)
(* sorpus: phrase masking (SpecialWordReplacer) and tokenize / restore /   *)
(* lower / POS-tag / lemmatize (TokenizeNLemmatize).                       *)
(*                                                                         *)
(* A Python str is modelled as a sequence of one-character strings, so     *)
(* "New York" would be <<"N","e","w"," ","Y","o","r","k">>.  The model     *)
(* alphabet is small: "N" and "I" are the upper-case letters, "n", "i" and *)
(* "s" the lower-case ones, " " is the space, and the markers are the      *)
(* characters of Markers.                                                  *)
(***************************************************************************)
EXTENDS Naturals, Sequences, FiniteSets

VARIABLES
    \* ---- one call of text_lemmatizer (specification Spec) ----
    text,           \* the argument `text`
    space_token,    \* the argument `space_token`
    return_pos,     \* the argument `return_pos`
    pc,             \* position inside text_lemmatizer
    tokens,         \* what word_tokenize returned (line 80), kept for reference
    restored,       \* `words` as it stands after line 95, kept for reference
    words,          \* the local `words`
    pos_tags,       \* the local `pos_tags` (the tags only)
    result,         \* the value returned, or the exception raised
    \* ---- one call of auto_lemmatizer (specification SpecAuto) ----
    arg,            \* the argument `text`: [kind |-> "str" | "list" | "other", val |-> ...]
    apc,            \* position of the caller / of the generator body
    returned,       \* what the call expression auto_lemmatizer(...) evaluated to
    tasks,          \* pool.imap: per input index, "pending" or the worker's outcome
    yielded,        \* the items the generator has handed to its consumer, in order
    stop_value,     \* the value carried by StopIteration (the body's `return`)
    raised,         \* the exception that reached the caller, or "none"
    invoked,        \* whether any tokenizer / tagger / lemmatizer call was made
    \* ---- SpecialWordReplacer.mask_words then restoration (specification SpecMask) ----
    special_words,  \* the configured phrases, in order
    target_word,    \* the target character
    replacement_char, \* the marker character
    mtext,          \* the text given to mask_words
    masked,         \* what mask_words returned
    mwords,         \* the tokens of the masked text after the restoration loop
    mpc,
    \* ---- __pos2tag on its own (specification SpecTag) ----
    pos,            \* the argument `pos`
    wn_tag,         \* the value returned
    tpc

lemma_vars == <<text, space_token, return_pos, pc, tokens, restored, words, pos_tags, result>>
auto_vars  == <<arg, apc, returned, tasks, yielded, stop_value, raised, invoked>>
mask_vars  == <<special_words, target_word, replacement_char, mtext, masked, mwords, mpc>>
tag_vars   == <<pos, wn_tag, tpc>>
vars == <<lemma_vars, auto_vars, mask_vars, tag_vars>>

(***************************************************************************)
(* Bounds                                                                  *)
(***************************************************************************)
MaxLen == 4
MaxTexts == 2
MaxMaskLen == 4
MaxPhrases == 2
MaxTagLen == 2

(***************************************************************************)
(* Characters and strings                                                  *)
(***************************************************************************)
Space == " "
\* the default space_token (U+2022 in the source, line 54), written "*" here
DefaultSpaceToken == "*"
Markers == {DefaultSpaceToken, "#"}
Alphabet == {"N", "I", "n", "s", Space, DefaultSpaceToken}

Strings(A, n) == UNION {[1..k -> A] : k \in 0..n}

\* str.lower() on one character
LowerChar(c) ==
    CASE c = "N" -> "n"
      [] c = "I" -> "i"
      [] c = "A" -> "a"
      [] c = "R" -> "r"
      [] c = "V" -> "v"
      [] c = "J" -> "j"
      [] c = "P" -> "p"
      [] OTHER -> c

\* str.upper() on one character (used only to state the documented rule)
UpperChar(c) ==
    CASE c = "n" -> "N"
      [] c = "i" -> "I"
      [] c = "a" -> "A"
      [] c = "r" -> "R"
      [] c = "v" -> "V"
      [] c = "j" -> "J"
      [] c = "p" -> "P"
      [] OTHER -> c

IsUpperChar(c) == LowerChar(c) # c

\* str.lower()
Lower(s) == [i \in 1..Len(s) |-> LowerChar(s[i])]

\* `c in s` for a one-character c
Contains(s, c) == \E i \in 1..Len(s) : s[i] = c

\* s.split(sep) for a one-character sep: empty parts are kept
RECURSIVE SplitAcc(_, _, _)
SplitAcc(s, sep, cur) ==
    IF s = <<>> THEN <<cur>>
    ELSE IF Head(s) = sep THEN <<cur>> \o SplitAcc(Tail(s), sep, <<>>)
    ELSE SplitAcc(Tail(s), sep, Append(cur, Head(s)))

Split(s, sep) == SplitAcc(s, sep, <<>>)

\* sep.join(parts) for a one-character sep
RECURSIVE Join(_, _)
Join(sep, parts) ==
    IF parts = <<>> THEN <<>>
    ELSE IF Len(parts) = 1 THEN parts[1]
    ELSE parts[1] \o <<sep>> \o Join(sep, Tail(parts))

(***************************************************************************)
(* The external services, as fixed deterministic functions                 *)
(***************************************************************************)
\* nltk.word_tokenize: the text cut at white space, empty pieces dropped
RECURSIVE TokenizeAcc(_, _)
TokenizeAcc(s, cur) ==
    IF s = <<>> THEN (IF cur = <<>> THEN <<>> ELSE <<cur>>)
    ELSE IF Head(s) = Space
         THEN (IF cur = <<>> THEN <<>> ELSE <<cur>>) \o TokenizeAcc(Tail(s), <<>>)
         ELSE TokenizeAcc(Tail(s), Append(cur, Head(s)))

word_tokenize(t) == TokenizeAcc(t, <<>>)

PRP == <<"P", "R", "P">>
NNP == <<"N", "N", "P">>
VBP == <<"V", "B", "P">>
VBN == <<"V", "B", "N">>
NNS == <<"N", "N", "S">>
NN  == <<"N", "N">>

\* nltk.pos_tag, the tag of ws[i]: it depends on the word's case, on its
\* ending ("-nn" is a participle, "-s" a plural) and on the word before it (a
\* lower-case word right after the pronoun reads as a verb)
TagAt(ws, i) ==
    LET w == ws[i] IN
    IF w = <<"I">> THEN PRP
    ELSE IF w = <<>> THEN NN
    ELSE IF IsUpperChar(w[1]) THEN NNP
    ELSE IF i > 1 /\ ws[i - 1] = <<"I">> THEN VBP
    ELSE IF Len(w) > 1 /\ w[Len(w)] = "n" /\ w[Len(w) - 1] = "n" THEN VBN
    ELSE IF w[Len(w)] = "s" THEN NNS
    ELSE NN

\* nltk.pos_tag(ws), the tags only
pos_tag(ws) == [i \in 1..Len(ws) |-> TagAt(ws, i)]

\* StanfordNERTagger.tag(ws), the labels only: a capitalised word without a
\* plural ending is a known place name, everything else is "O"
ner_tag(ws) ==
    [i \in 1..Len(ws) |->
        IF ws[i] # <<>> /\ ws[i][1] = "N" /\ ~Contains(ws[i], "s")
        THEN "LOCATION" ELSE "O"]

\* WordNetLemmatizer.lemmatize(word, pos): nouns lose a plural "s", verbs a
\* final "s" or "n", adjectives and adverbs are left as they are
lemmatize(word, p) ==
    LET n == Len(word) IN
    IF n > 1 /\ ((p \in {"n", "v"} /\ word[n] = "s") \/ (p = "v" /\ word[n] = "n"))
    THEN SubSeq(word, 1, n - 1)
    ELSE word

(***************************************************************************)
(* TokenizeNLemmatize                                                      *)
(***************************************************************************)
\* __pos2tag
Pos2TagUpperFirst(p) ==
    IF UpperChar(p[1]) \in {"A", "N", "R", "V"} THEN LowerChar(p[1]) ELSE "n"

Pos2Tag(p) == IF p[1] \in {"A", "N", "R", "V"} THEN LowerChar(p[1]) ELSE "n"

\* the restoration loop with the final sub-part lemmatized as a noun, untagged
RestoreWordUntagged(word, tok) ==
    IF Contains(word, tok)
    THEN LET compounds == Split(word, tok)
             k == Len(compounds)
         IN  Join(Space, [compounds EXCEPT ![k] = lemmatize(compounds[k], "n")])
    ELSE word

\* text_lemmatizer, lines 85-94: one token of the restoration loop
RestoreWord(word, tok) ==
    IF Contains(word, tok)
    THEN LET compounds == Split(word, tok)
             k == Len(compounds)
             last_compound_pos == pos_tag(<<compounds[k]>>)
             lemma == lemmatize(compounds[k], Pos2Tag(last_compound_pos[1]))
         IN  Join(Space, [compounds EXCEPT ![k] = lemma])
    ELSE word

\* text_lemmatizer, lines 83-95
Restore(ws, tok) == [j \in 1..Len(ws) |-> RestoreWord(ws[j], tok)]

\* the capitalization rule without its test for the pronoun
LowerFirstNoPronoun(ws) ==
    IF ner_tag(ws)[1] = "O" THEN [ws EXCEPT ![1] = Lower(ws[1])] ELSE ws

\* text_lemmatizer, lines 98-101 (ws is not empty)
LowerFirst(ws) ==
    IF ner_tag(ws)[1] = "O" /\ ws[1] # <<"I">>
    THEN [ws EXCEPT ![1] = Lower(ws[1])]
    ELSE ws

\* the two return branches lemmatizing differently: the paired one as nouns
LemmatizeAllPairedAsNoun(ws, tags, rp) ==
    IF rp
    THEN [i \in 1..Len(ws) |-> <<lemmatize(ws[i], "n"), tags[i]>>]
    ELSE [i \in 1..Len(ws) |-> lemmatize(ws[i], Pos2Tag(tags[i]))]

\* text_lemmatizer, lines 107-121
LemmatizeAll(ws, tags, rp) ==
    IF rp
    THEN [i \in 1..Len(ws) |-> <<lemmatize(ws[i], Pos2Tag(tags[i])), tags[i]>>]
    ELSE [i \in 1..Len(ws) |-> lemmatize(ws[i], Pos2Tag(tags[i]))]

IndexError == [exception |-> "IndexError"]
None == [none |-> TRUE]

\* text_lemmatizer as a whole: the list returned, or the exception raised
TextLemmatizer(t, tok, rp) ==
    LET ws == Restore(word_tokenize(t), tok) IN
    IF ws = <<>> THEN IndexError
    ELSE LET lw == LowerFirst(ws) IN LemmatizeAll(lw, pos_tag(lw), rp)

(***************************************************************************)
(* Specification Spec: one call of text_lemmatizer, block by block         *)
(***************************************************************************)
AutoIdle ==
    /\ arg = None /\ apc = "off" /\ returned = None /\ tasks = <<>>
    /\ yielded = <<>> /\ stop_value = None /\ raised = "none" /\ invoked = FALSE

MaskIdle ==
    /\ special_words = <<>> /\ target_word = Space /\ replacement_char = DefaultSpaceToken
    /\ mtext = <<>> /\ masked = None /\ mwords = None /\ mpc = "off"

TagIdle == pos = <<>> /\ wn_tag = None /\ tpc = "off"

LemmaIdle ==
    /\ text = <<>> /\ space_token = DefaultSpaceToken /\ return_pos = FALSE
    /\ pc = "off" /\ tokens = None /\ restored = None /\ words = None
    /\ pos_tags = None /\ result = None

Init ==
    /\ text \in Strings(Alphabet, MaxLen)
    /\ space_token \in Markers
    /\ return_pos \in BOOLEAN
    /\ pc = "tokenize"
    /\ tokens = None /\ restored = None /\ words = None
    /\ pos_tags = None /\ result = None
    /\ AutoIdle /\ MaskIdle /\ TagIdle

\* line 80
Tokenize ==
    /\ pc = "tokenize"
    /\ words' = word_tokenize(text)
    /\ tokens' = words'
    /\ pc' = "restore"
    /\ UNCHANGED <<text, space_token, return_pos, restored, pos_tags, result>>
    /\ UNCHANGED <<auto_vars, mask_vars, tag_vars>>

\* lines 83-95
RestoreStep ==
    /\ pc = "restore"
    /\ words' = Restore(words, space_token)
    /\ restored' = words'
    /\ pc' = "lower"
    /\ UNCHANGED <<text, space_token, return_pos, tokens, pos_tags, result>>
    /\ UNCHANGED <<auto_vars, mask_vars, tag_vars>>

\* lines 98-101, with a first token
LowerStep ==
    /\ pc = "lower"
    /\ words # <<>>
    /\ words' = LowerFirst(words)
    /\ pc' = "tag"
    /\ UNCHANGED <<text, space_token, return_pos, tokens, restored, pos_tags, result>>
    /\ UNCHANGED <<auto_vars, mask_vars, tag_vars>>

\* line 99 on an empty token list: [0] of an empty list
LowerFails ==
    /\ pc = "lower"
    /\ words = <<>>
    /\ result' = IndexError
    /\ pc' = "raised"
    /\ UNCHANGED <<text, space_token, return_pos, tokens, restored, words, pos_tags>>
    /\ UNCHANGED <<auto_vars, mask_vars, tag_vars>>

\* the tagger run on the token sequence as it stood before lines 98-101
TagStepBeforeLower ==
    /\ pc = "tag"
    /\ pos_tags' = pos_tag(restored)
    /\ pc' = "lemmatize"
    /\ UNCHANGED <<text, space_token, return_pos, tokens, restored, words, result>>
    /\ UNCHANGED <<auto_vars, mask_vars, tag_vars>>

\* line 104
TagStep ==
    /\ pc = "tag"
    /\ pos_tags' = pos_tag(words)
    /\ pc' = "lemmatize"
    /\ UNCHANGED <<text, space_token, return_pos, tokens, restored, words, result>>
    /\ UNCHANGED <<auto_vars, mask_vars, tag_vars>>

\* lines 107-121
LemmatizeStep ==
    /\ pc = "lemmatize"
    /\ result' = LemmatizeAll(words, pos_tags, return_pos)
    /\ pc' = "returned"
    /\ UNCHANGED <<text, space_token, return_pos, tokens, restored, words, pos_tags>>
    /\ UNCHANGED <<auto_vars, mask_vars, tag_vars>>

Next ==
    \/ Tokenize
    \/ RestoreStep
    \/ LowerStep
    \/ LowerFails
    \/ TagStep
    \/ LemmatizeStep

Spec == Init /\ [][Next]_vars

(***************************************************************************)
(* Specification SpecTag: __pos2tag applied to one tag                     *)
(***************************************************************************)
TagChars == {"A", "N", "R", "V", "J", "P", "a", "n", "r", "v", "."}

\* the tags are not empty: no tagger returns an empty tag
InitTag ==
    /\ pos \in Strings(TagChars, MaxTagLen) \ {<<>>}
    /\ wn_tag = None
    /\ tpc = "call"
    /\ LemmaIdle /\ AutoIdle /\ MaskIdle

CallPos2Tag ==
    /\ tpc = "call"
    /\ wn_tag' = Pos2Tag(pos)
    /\ tpc' = "returned"
    /\ UNCHANGED <<pos, lemma_vars, auto_vars, mask_vars>>

NextTag == CallPos2Tag

SpecTag == InitTag /\ [][NextTag]_vars

(***************************************************************************)
(* Specification SpecAuto: one call of auto_lemmatizer and its consumer.   *)
(* auto_lemmatizer holds a `yield from` (line 165), so it is a generator   *)
(* function: calling it runs none of its body and hands back a generator;  *)
(* the body runs when the consumer first asks the generator for an item.   *)
(***************************************************************************)
Corpus ==
    { <<"N", "s", " ", "n", "n">>,
      <<"I", " ", "n", "s">>,
      <<"N", "*", "n", "s">>,
      <<"n", "#", "n", "n">>,
      <<>> }

OtherInputs == {"int", "tuple", "NoneType"}

\* text_lemmatizer raises (IndexError, line 99) exactly when there is no token
Raises(t) == word_tokenize(t) = <<>>

Pending == [done |-> FALSE, ok |-> TRUE, value |-> <<>>]

\* what a pool worker computes for one item: self.text_lemmatizer(item), line 165
WorkerOutcome(t) ==
    IF Raises(t) THEN [done |-> TRUE, ok |-> FALSE, value |-> <<>>]
    ELSE [done |-> TRUE, ok |-> TRUE,
          value |-> TextLemmatizer(t, DefaultSpaceToken, FALSE)]

InitAuto ==
    /\ \/ \E t \in Corpus : arg = [kind |-> "str", val |-> t]
       \/ \E l \in Strings(Corpus, MaxTexts) : arg = [kind |-> "list", val |-> l]
       \/ \E o \in OtherInputs : arg = [kind |-> "other", val |-> o]
    /\ space_token \in Markers
    /\ return_pos \in BOOLEAN
    /\ apc = "call"
    /\ returned = [type |-> "none", value |-> <<>>]
    /\ tasks = <<>>
    /\ yielded = <<>>
    /\ stop_value = [type |-> "none", value |-> <<>>]
    /\ raised = "none"
    /\ invoked = FALSE
    /\ text = <<>> /\ pc = "off" /\ tokens = None /\ restored = None /\ words = None
    /\ pos_tags = None /\ result = None
    /\ MaskIdle /\ TagIdle

\* the call expression auto_lemmatizer(text, space_token, return_pos)
Call ==
    /\ apc = "call"
    /\ returned' = [type |-> "generator", value |-> <<>>]
    /\ apc' = "suspended"
    /\ UNCHANGED <<arg, tasks, yielded, stop_value, raised, invoked>>
    /\ UNCHANGED <<lemma_vars, mask_vars, tag_vars>>

\* first next() on the generator, a str: lines 159-160
ResumeStr ==
    /\ apc = "suspended"
    /\ arg.kind = "str"
    /\ invoked' = TRUE
    /\ IF Raises(arg.val)
       THEN raised' = "IndexError" /\ UNCHANGED stop_value
       ELSE /\ stop_value' = [type |-> "list",
                              value |-> TextLemmatizer(arg.val, space_token, return_pos)]
            /\ UNCHANGED raised
    /\ apc' = "finished"
    /\ UNCHANGED <<arg, returned, tasks, yielded>>
    /\ UNCHANGED <<lemma_vars, mask_vars, tag_vars>>

\* first next() on the generator, a list: lines 161-165, the pool is made
\* and imap queues one task per item
ResumeList ==
    /\ apc = "suspended"
    /\ arg.kind = "list"
    /\ tasks' = [i \in 1..Len(arg.val) |-> Pending]
    /\ apc' = "iterating"
    /\ UNCHANGED <<arg, returned, yielded, stop_value, raised, invoked>>
    /\ UNCHANGED <<lemma_vars, mask_vars, tag_vars>>

\* first next() on the generator, neither a str nor a list: lines 166-167
ResumeOther ==
    /\ apc = "suspended"
    /\ arg.kind = "other"
    /\ raised' = "TypeError"
    /\ apc' = "finished"
    /\ UNCHANGED <<arg, returned, tasks, yielded, stop_value, invoked>>
    /\ UNCHANGED <<lemma_vars, mask_vars, tag_vars>>

\* a pool worker finishes item i; the workers finish in any order
WorkerFinish(i) ==
    /\ apc = "iterating"
    /\ ~tasks[i].done
    /\ tasks' = [tasks EXCEPT ![i] = WorkerOutcome(arg.val[i])]
    /\ invoked' = TRUE
    /\ UNCHANGED <<arg, apc, returned, yielded, stop_value, raised>>
    /\ UNCHANGED <<lemma_vars, mask_vars, tag_vars>>

\* imap hands over the next item in input order once its worker is done; a
\* worker's exception is raised in the consumer instead
YieldNext ==
    /\ apc = "iterating"
    /\ Len(yielded) < Len(arg.val)
    /\ LET t == tasks[Len(yielded) + 1] IN
       /\ t.done
       /\ IF t.ok
          THEN yielded' = Append(yielded, t.value) /\ UNCHANGED <<apc, raised>>
          ELSE raised' = "IndexError" /\ apc' = "finished" /\ UNCHANGED yielded
    /\ UNCHANGED <<arg, returned, tasks, stop_value, invoked>>
    /\ UNCHANGED <<lemma_vars, mask_vars, tag_vars>>

\* imap is exhausted: the generator ends
Exhaust ==
    /\ apc = "iterating"
    /\ Len(yielded) = Len(arg.val)
    /\ apc' = "finished"
    /\ UNCHANGED <<arg, returned, tasks, yielded, stop_value, raised, invoked>>
    /\ UNCHANGED <<lemma_vars, mask_vars, tag_vars>>

NextAuto ==
    \/ Call
    \/ ResumeStr
    \/ ResumeList
    \/ ResumeOther
    \/ \E i \in 1..Len(tasks) : WorkerFinish(i)
    \/ YieldNext
    \/ Exhaust

SpecAuto == InitAuto /\ [][NextAuto]_vars

(***************************************************************************)
(* SpecialWordReplacer (replacer.py), from its description: for each       *)
(* phrase in order, every occurrence of the phrase in the working text is  *)
(* replaced by the phrase with its targets turned into the marker.         *)
(***************************************************************************)
\* str.replace(old, new): left to right, occurrences that do not overlap
RECURSIVE ReplaceAll(_, _, _)
ReplaceAll(s, old, new) ==
    IF Len(s) < Len(old) THEN s
    ELSE IF SubSeq(s, 1, Len(old)) = old
         THEN new \o ReplaceAll(SubSeq(s, Len(old) + 1, Len(s)), old, new)
         ELSE <<Head(s)>> \o ReplaceAll(Tail(s), old, new)

\* the phrase with every target turned into the marker
MaskedForm(phrase, target, marker) ==
    [i \in 1..Len(phrase) |-> IF phrase[i] = target THEN marker ELSE phrase[i]]

\* one phrase handled carelessly: when it occurs, every target of the text is replaced
MaskPhraseWholeText(t, phrase, target, marker) ==
    IF ReplaceAll(t, phrase, <<>>) # t THEN MaskedForm(t, target, marker) ELSE t

\* one phrase: its occurrences in the working text are replaced by its masked form
MaskPhrase(t, phrase, target, marker) ==
    ReplaceAll(t, phrase, MaskedForm(phrase, target, marker))

\* the working text after the first n phrases
RECURSIVE MaskPrefix(_, _, _, _, _)
MaskPrefix(t, phrases, n, target, marker) ==
    IF n = 0 THEN t
    ELSE MaskPhrase(MaskPrefix(t, phrases, n - 1, target, marker),
                    phrases[n], target, marker)

\* SpecialWordReplacer.mask_words
mask_words(t, phrases, target, marker) ==
    MaskPrefix(t, phrases, Len(phrases), target, marker)

(***************************************************************************)
(* Specification SpecMask: a text is masked, then the masked text goes     *)
(* through the tokenizer and the restoration loop of text_lemmatizer       *)
(***************************************************************************)
MaskAlphabet == {"n", "s", Space, DefaultSpaceToken}

\* the phrases a replacer may be configured with (none contains the marker)
PhraseVocabulary ==
    { <<"n", " ", "n", "s">>,
      <<"s", " ", "n", "n">>,
      <<"n", " ", "n">>,
      <<"n", "s", "n">>,
      <<"n", "s">> }

Targets == {Space, "s"}

\* the phrase lists: distinct phrases, in any order
PhraseLists ==
    {l \in Strings(PhraseVocabulary, MaxPhrases) :
        \A i, j \in 1..Len(l) : i # j => l[i] # l[j]}

InitMask ==
    /\ special_words \in PhraseLists
    /\ target_word \in Targets
    /\ replacement_char = DefaultSpaceToken
    /\ mtext \in Strings(MaskAlphabet, MaxMaskLen)
    /\ masked = None
    /\ mwords = None
    /\ mpc = "mask"
    /\ LemmaIdle /\ AutoIdle /\ TagIdle

\* replacer.mask_words(text)
MaskWords ==
    /\ mpc = "mask"
    /\ masked' = mask_words(mtext, special_words, target_word, replacement_char)
    /\ mpc' = "lemmatize"
    /\ UNCHANGED <<special_words, target_word, replacement_char, mtext, mwords>>
    /\ UNCHANGED <<lemma_vars, auto_vars, tag_vars>>

\* text_lemmatizer(masked, space_token = the marker), lines 80-95
RestoreMasked ==
    /\ mpc = "lemmatize"
    /\ mwords' = Restore(word_tokenize(masked), replacement_char)
    /\ mpc' = "restored"
    /\ UNCHANGED <<special_words, target_word, replacement_char, mtext, masked>>
    /\ UNCHANGED <<lemma_vars, auto_vars, tag_vars>>

NextMask ==
    \/ MaskWords
    \/ RestoreMasked

SpecMask == InitMask /\ [][NextMask]_vars

(***************************************************************************)
(* Properties of text_lemmatizer (specification Spec)                      *)
(***************************************************************************)
AfterRestore == pc \in {"lower", "raised", "tag", "lemmatize", "returned"}
AfterLower == pc \in {"tag", "lemmatize", "returned"}

\* C4: the first restored token is lower-cased exactly when the entity tagger
\* labels it "O" and it is not the token "I"; otherwise it keeps its casing;
\* no token after the first is changed by this step.
C4_FirstTokenCasing ==
    AfterLower =>
        LET lowered == ner_tag(restored)[1] = "O" /\ restored[1] # <<"I">> IN
        /\ Len(words) = Len(restored)
        /\ Len(words[1]) = Len(restored[1])
        /\ \A j \in 1..Len(words[1]) :
              words[1][j] = IF lowered THEN LowerChar(restored[1][j]) ELSE restored[1][j]
        /\ \A i \in 2..Len(words) : words[i] = restored[i]

\* a first token that was lower-cased, followed by a capitalised token that was not
C4_Witness ==
    /\ pc = "tag"
    /\ words[1] # restored[1]
    /\ Len(words) >= 2
    /\ Lower(words[2]) # words[2]

\* the position of the last tok in w (w contains tok)
LastIndexOf(w, tok) ==
    CHOOSE k \in 1..Len(w) : w[k] = tok /\ \A j \in (k + 1)..Len(w) : w[j] # tok

\* C5: a token containing the marker comes out of the restoration loop as its
\* sub-parts joined by spaces, the final sub-part replaced by its lemma under
\* the category of the tag it gets when tagged alone; a token without the
\* marker is unchanged; the sequence keeps its length and no restored token
\* contains the marker.
C5_Restoration ==
    AfterRestore =>
        /\ Len(restored) = Len(tokens)
        /\ \A i \in 1..Len(tokens) :
              LET w == tokens[i]
                  r == restored[i]
              IN  IF Contains(w, space_token)
                  THEN LET k == LastIndexOf(w, space_token)
                           final == SubSeq(w, k + 1, Len(w))
                           alone == pos_tag(<<final>>)[1]
                       IN  /\ r = [j \in 1..k |-> IF w[j] = space_token THEN Space ELSE w[j]]
                                    \o lemmatize(final, Pos2Tag(alone))
                           /\ ~Contains(r, space_token)
                  ELSE r = w

\* a compound with a first sub-part, whose final sub-part is tagged a
\* participle when alone and was changed by its lemma
C5_Witness ==
    /\ pc = "lower"
    /\ \E i \in 1..Len(tokens) :
          /\ Contains(tokens[i], space_token)
          /\ tokens[i][1] # space_token
          /\ Len(restored[i]) < Len(tokens[i])
          /\ pos_tag(<<SubSeq(tokens[i], LastIndexOf(tokens[i], space_token) + 1,
                              Len(tokens[i]))>>)[1] = VBN

\* C8 as stated: the tags used and returned are those of the restored
\* sequence as it stood before the first token was lower-cased.
C8_TagsOfSequenceBeforeLowering ==
    pc = "returned" => pos_tags = pos_tag(restored)

\* C8 amended: the tagger runs after the capitalization rule; the tags used
\* and returned are those of the sequence with its first token already
\* lower-cased, and each lemma is taken under its token's tag.
C8_TagsOfSequenceAfterLowering ==
    /\ pc \in {"lemmatize", "returned"} => pos_tags = pos_tag(words)
    /\ pc = "returned" =>
          \A i \in 1..Len(words) :
              LET entry == IF return_pos THEN result[i][1] ELSE result[i] IN
              /\ entry = lemmatize(words[i], Pos2Tag(TagAt(words, i)))
              /\ return_pos => result[i][2] = TagAt(words, i)

\* lower-casing the first token changed its tag
C8_Witness ==
    /\ pc = "returned"
    /\ IsUpperChar(restored[1][1])
    /\ words[1] # restored[1]
    /\ pos_tags[1] # pos_tag(restored)[1]

Firsts(pairs) == [i \in 1..Len(pairs) |-> pairs[i][1]]

C9_FirstLetterUppercased ==
    tpc = "returned" =>
        LET c == UpperChar(pos[1]) IN
        wn_tag = (CASE c = "A" -> "a" [] c = "N" -> "n" [] c = "R" -> "r"
                    [] c = "V" -> "v" [] OTHER -> "n")

\* C9 amended: the mapping is total on non-empty tags and depends only on the
\* tag's first character as it is: "A", "N", "R", "V" give adjective, noun,
\* adverb, verb; every other first character, a lower-case a/n/r/v included,
\* gives noun.
C9_FirstLetterAsIs ==
    tpc = "returned" =>
        /\ wn_tag \in {"a", "n", "r", "v"}
        /\ pos[1] = "A" => wn_tag = "a"
        /\ pos[1] = "N" => wn_tag = "n"
        /\ pos[1] = "R" => wn_tag = "r"
        /\ pos[1] = "V" => wn_tag = "v"
        /\ pos[1] \notin {"A", "N", "R", "V"} => wn_tag = "n"

\* a tag beginning with a lower-case v was mapped to noun
C9_Witness == tpc = "returned" /\ pos[1] = "v" /\ wn_tag = "n"

(***************************************************************************)
(* Properties of auto_lemmatizer (specification SpecAuto)                  *)
(***************************************************************************)
\* C1: for a string, the value the caller gets back from auto_lemmatizer is
\* the value text_lemmatizer returns for the same arguments.
C1_StrCallReturnsLemmas ==
    (apc # "call" /\ arg.kind = "str" /\ ~Raises(arg.val)) =>
        /\ returned.type = "list"
        /\ returned.value = TextLemmatizer(arg.val, space_token, return_pos)

\* C2: for a list, auto_lemmatizer produces one result per input, in input
\* order, the i-th equal to text_lemmatizer(L[i], marker, with_pos) with the
\* caller's marker and with_pos, whatever order the workers finish in.
C2_ListResultsUseCallerArguments ==
    (apc = "finished" /\ arg.kind = "list" /\ raised = "none") =>
        /\ Len(yielded) = Len(arg.val)
        /\ \A i \in 1..Len(yielded) :
              yielded[i] = TextLemmatizer(arg.val[i], space_token, return_pos)

\* C3: for an input that is neither a string nor a list, the call itself
\* fails with TypeError: no result object is handed back first and no
\* service is invoked.
C3_TypeErrorAtTheCall ==
    (apc # "call" /\ arg.kind = "other") =>
        /\ raised = "TypeError"
        /\ returned.type = "none"
        /\ ~invoked

(***************************************************************************)
(* Properties of masking and restoration (specification SpecMask)          *)
(***************************************************************************)
\* p occurs in t at position k
OccursAt(t, p, k) == k + Len(p) - 1 <= Len(t) /\ SubSeq(t, k, k + Len(p) - 1) = p

\* the positions where a left-to-right scan of t matches p, matches not overlapping
RECURSIVE MatchStarts(_, _, _)
MatchStarts(t, p, k) ==
    IF k + Len(p) - 1 > Len(t) THEN {}
    ELSE IF OccursAt(t, p, k) THEN {k} \cup MatchStarts(t, p, k + Len(p))
    ELSE MatchStarts(t, p, k + 1)

\* C6: masking changes the text only inside spans of occurrences of
\* configured phrases, and there only by turning a target into the marker;
\* every target inside a matched span becomes the marker; targets outside
\* the spans are untouched; a text with no configured phrase is unchanged.
C6_MaskFrame ==
    mpc # "mask" =>
        /\ Len(masked) = Len(mtext)
        /\ \A i \in 1..Len(mtext) :
              masked[i] # mtext[i] =>
                  /\ mtext[i] = target_word
                  /\ masked[i] = replacement_char
                  /\ \E n \in 1..Len(special_words) :
                        \E k \in 1..i :
                            /\ OccursAt(mtext, special_words[n], k)
                            /\ i <= k + Len(special_words[n]) - 1
        /\ \A n \in 1..Len(special_words) :
              LET work == MaskPrefix(mtext, special_words, n - 1,
                                     target_word, replacement_char)
                  p == special_words[n]
              IN  \A k \in MatchStarts(work, p, 1) :
                      \A j \in k..(k + Len(p) - 1) :
                          work[j] = target_word => masked[j] = replacement_char
        /\ (\A n \in 1..Len(special_words) :
                \A k \in 1..Len(mtext) : ~OccursAt(mtext, special_words[n], k))
              => masked = mtext

\* a phrase was masked, and a target outside its span was left as it was
C6_Witness ==
    /\ mpc = "lemmatize"
    /\ masked # mtext
    /\ \E i \in 1..Len(mtext) : mtext[i] = target_word /\ masked[i] = target_word

\* the masked text's tokens that are the masked form of a configured phrase
\* holding the target, in a text whose markers all come from masking
MaskedOccurrences ==
    {<<i, n>> \in (1..Len(mwords)) \X (1..Len(special_words)) :
        /\ ~Contains(mtext, replacement_char)
        /\ Contains(special_words[n], target_word)
        /\ word_tokenize(masked)[i]
              = MaskedForm(special_words[n], target_word, replacement_char)}

\* C7 as stated, for the target text_lemmatizer rejoins with (a space):
\* restoring a masked phrase occurrence recovers the original substring
\* exactly.
C7_RestoreRecoversPhrase ==
    (mpc = "restored" /\ target_word = Space) =>
        \A o \in MaskedOccurrences : mwords[o[1]] = special_words[o[2]]

\* C7 amended: a masked phrase occurrence is restored to its sub-parts joined
\* by single spaces, the final sub-part replaced by its lemma; the original
\* substring is recovered exactly when the target is a space and the lemma of
\* the final sub-part is that sub-part itself.
C7_RestoreUpToFinalLemma ==
    mpc = "restored" =>
        \A o \in MaskedOccurrences :
            LET p == special_words[o[2]]
                k == LastIndexOf(p, target_word)
                final == SubSeq(p, k + 1, Len(p))
                lemma == lemmatize(final, Pos2Tag(pos_tag(<<final>>)[1]))
            IN  /\ mwords[o[1]]
                      = [j \in 1..k |-> IF p[j] = target_word THEN Space ELSE p[j]]
                        \o lemma
                /\ mwords[o[1]] = p <=> (target_word = Space /\ lemma = final)

\* the text was masked and a masked phrase was restored to something else
\* than the phrase, its final sub-part a participle reduced to its lemma
C7_Witness ==
    /\ mpc = "restored"
    /\ masked # mtext
    /\ \E o \in MaskedOccurrences :
          /\ mwords[o[1]] # special_words[o[2]]
          /\ target_word = Space
          /\ special_words[o[2]] = <<"s", " ", "n", "n">>

====
